---- MODULE Spec2Model ----
(***************************************************************************)
(* Model of src/terminal_interativo.py: the session bootstrap              *)
(* (setup_session_and_runner), one agent turn (call_agent) and the         *)
(* read-dispatch-display loop (interactive_terminal) under the process     *)
(* boundary of __main__.                                                   *)
(*                                                                         *)
(* A string is a sequence of atoms.  An atom is one character where the    *)
(* code looks at characters (str.strip, str.lower, the comparison with the *)
(* exit phrases) and one fixed chunk of text where it does not (the        *)
(* literal messages of the script, an exception's text).                   *)
(***************************************************************************)
EXTENDS Naturals, Sequences, FiniteSets, TLC

\* ------------------------------------------------------------------ bounds
\* longest line drawn over Alphabet (the longer lines of interest are in ExtraLines)
MaxLen == 2
\* most events one run_async sequence yields before it ends or raises
MaxEvents == 2
\* most turns dispatched to the runner in one run
MaxTurns == 2

\* --------------------------------------------------------------- constants
APP_NAME_OPENAPI == "openapi_petstore_app"
USER_ID_OPENAPI == "user_openapi_1"
\* the values uuid.uuid4() may give SESSION_ID_OPENAPI at import
SessionIds == {"session_openapi_u1", "session_openapi_u2"}

FALLBACK == <<"Agent não forneceu uma resposta final.">>
ERRO_PREFIX == <<"Erro: ">>
ExitPhrases == { <<"s","a","i","r">>, <<"q","u","i","t">>, <<"e","x","i","t">>, <<"q">> }

\* ----------------------------------------------------------------- strings
Whitespace == {" ", "\t"}

Upper == ("S" :> "s") @@ ("A" :> "a") @@ ("I" :> "i") @@ ("R" :> "r") @@
         ("Q" :> "q") @@ ("U" :> "u") @@ ("T" :> "t") @@ ("E" :> "e") @@
         ("X" :> "x")

\* str.lower(): cased characters go to lower case, every other one stays
Lower(s) == [i \in 1..Len(s) |-> IF s[i] \in DOMAIN Upper THEN Upper[s[i]] ELSE s[i]]

RECURSIVE LStrip(_)
LStrip(s) == IF s # <<>> /\ Head(s) \in Whitespace THEN LStrip(Tail(s)) ELSE s

RECURSIVE RStrip(_)
RStrip(s) == IF s # <<>> /\ s[Len(s)] \in Whitespace
             THEN RStrip(SubSeq(s, 1, Len(s) - 1)) ELSE s

\* str.strip(): leading and trailing whitespace removed, inner whitespace kept
Strip(s) == RStrip(LStrip(s))

\* ------------------------------------------------------------------ inputs
Alphabet == {" ", "q"}

RECURSIVE SeqsUpTo(_, _)
SeqsUpTo(S, n) ==
    IF n = 0 THEN {<<>>}
    ELSE LET shorter == SeqsUpTo(S, n - 1)
         IN  shorter \cup {Append(s, c) : s \in shorter, c \in S}

ExtraLines == { <<"s","a","i","r">>, <<"S","a","I","r">>,
                <<" ","S","A","I","R"," ">>, <<"\t","Q","u","i","t">>,
                <<"E","X","I","T","\t">>, <<"e","x","i","t">>,
                <<"Q">>, <<" ","Q","\t">>, <<"\t">>,
                <<"s","a","i">>, <<"s","a"," ","i","r">>, <<"q"," ","Q">> }

\* what input() can return: a line without its newline
Lines == SeqsUpTo(Alphabet, MaxLen) \cup ExtraLines

\* no line has been read (before the first input(), or input() raised)
NoLine == <<"<no line>">>

\* texts of the exceptions the collaborators raise (str(e))
ExcTexts == { <<"boom">>, <<>> }
\* text of the EOFError input() raises at end of input
EOF_ERROR == <<"EOF when reading a line">>
ATTRIBUTE_ERROR == <<"'NoneType' object has no attribute 'strip'">>

\* An event of runner.run_async, as call_agent reads it:
\*   calls  get_function_calls(), the names of the requested tool invocations
\*   final  is_final_response(); the framework's event is never final while it
\*          carries function calls
\*   parts  "empty": content is None or has no parts; "notext": parts[0].text is
\*          None; "text": parts[0].text is the string `text`
Event(c, f, p, t) == [calls |-> c, final |-> f, parts |-> p, text |-> t]

Events ==
    { Event(<<"createPet", "listPets">>, FALSE, "empty", <<>>),
      Event(<<>>, FALSE, "text", <<"x">>),
      Event(<<>>, TRUE, "empty", <<>>),
      Event(<<>>, TRUE, "notext", <<>>),
      Event(<<>>, TRUE, "text", <<"a">>),
      Event(<<>>, TRUE, "text", <<" ", "b", " ">>) }

\* ------------------------------------------------------------------- state
VARIABLES
    pc,                   \* "boot", "awaiting" (in input()), "dispatching" (in await
                          \* call_agent), "returned" (interactive_terminal returned),
                          \* "terminated" (asyncio.run raised into __main__)
    SESSION_ID_OPENAPI,   \* the module constant, drawn once at import
    created,              \* the create_session calls made, in order
    bootstrap,            \* "pending", "ok", "failed", "interrupted"
    line,                 \* what the latest input() returned, NoLine if it raised
    user_input,           \* the local user_input
    final_response_text,  \* the local of call_agent
    runArgs,              \* the arguments of the latest run_async call
    events,               \* the events consumed in the current turn
    notices,              \* the tool names printed as progress in the current turn
    outcome,              \* how the latest turn ended, and the runner's exception text
    stdout,               \* the latest message printed
    dispatches,           \* run_async calls made
    responses,            \* response lines printed (line 228)
    handled,              \* the handlers that ended the loop or the run, in order
    exitCause,            \* why the loop was left: "none", "phrase", "interrupt"
    interruptAt           \* where an interrupt arrived: "none", "boot", "input", "dispatch"

vars == << pc, SESSION_ID_OPENAPI, created, bootstrap, line, user_input,
           final_response_text, runArgs, events, notices, outcome, stdout,
           dispatches, responses, handled, exitCause, interruptAt >>

Msg(k, t) == [kind |-> k, text |-> t]

NoArgs == [user_id |-> "", session_id |-> "", new_message |-> NoLine]
NoOutcome == [end |-> "none", exc |-> <<>>]

Init ==
    /\ pc = "boot"
    /\ SESSION_ID_OPENAPI \in SessionIds
    /\ created = <<>>
    /\ bootstrap = "pending"
    /\ line = NoLine
    /\ user_input = NoLine
    /\ final_response_text = <<>>
    /\ runArgs = NoArgs
    /\ events = <<>>
    /\ notices = <<>>
    /\ outcome = NoOutcome
    /\ stdout = Msg("banner", <<>>)
    /\ dispatches = 0
    /\ responses = 0
    /\ handled = <<>>
    /\ exitCause = "none"
    /\ interruptAt = "none"

\* ------------------------------------------------------ bootstrap (164-176)
CreateSessionArgs ==
    [app_name |-> APP_NAME_OPENAPI, user_id |-> USER_ID_OPENAPI,
     session_id |-> SESSION_ID_OPENAPI]

LoopVarsUnchanged ==
    UNCHANGED << line, user_input, final_response_text, runArgs, events, notices,
                 outcome, dispatches, responses, exitCause >>

\* setup_session_and_runner returns: lines 210-212, the loop is entered
SetupOk ==
    /\ pc = "boot"
    /\ created' = Append(created, CreateSessionArgs)
    /\ bootstrap' = "ok"
    /\ stdout' = Msg("ready", <<>>)
    /\ pc' = "awaiting"
    /\ LoopVarsUnchanged
    /\ UNCHANGED << SESSION_ID_OPENAPI, handled, interruptAt >>

\* a bootstrap error that is swallowed: the loop is entered all the same
SetupFailsEntersLoop ==
    /\ pc = "boot"
    /\ created' = created
    /\ bootstrap' = "failed"
    /\ stdout' = Msg("init_error", <<>>)
    /\ handled' = Append(handled, "init_error")
    /\ pc' = "awaiting"
    /\ LoopVarsUnchanged
    /\ UNCHANGED << SESSION_ID_OPENAPI, interruptAt >>

\* Runner(...) or create_session(...) raises an Exception, before or after the
\* session exists: caught at line 236, reported at 237, interactive_terminal returns
SetupFails ==
    /\ pc = "boot"
    /\ \E e \in ExcTexts :
          /\ created' \in {created, Append(created, CreateSessionArgs)}
          /\ bootstrap' = "failed"
          /\ stdout' = Msg("init_error", e)
          /\ handled' = Append(handled, "init_error")
          /\ pc' = "returned"
    /\ LoopVarsUnchanged
    /\ UNCHANGED << SESSION_ID_OPENAPI, interruptAt >>

\* KeyboardInterrupt during the bootstrap: `except Exception` at 236 lets it
\* pass, asyncio.run raises it, lines 243-244 report it
SetupInterrupted ==
    /\ pc = "boot"
    /\ created' \in {created, Append(created, CreateSessionArgs)}
    /\ bootstrap' = "interrupted"
    /\ interruptAt' = "boot"
    /\ stdout' = Msg("program_end", <<>>)
    /\ handled' = Append(handled, "outer_interrupt")
    /\ pc' = "terminated"
    /\ LoopVarsUnchanged
    /\ UNCHANGED << SESSION_ID_OPENAPI >>

\* ------------------------------------------------ reading a line (216-226)
\* a read that forgets to strip
ReadLineNoStrip(l) == l

\* line 216: input(...).strip()
ReadLine(l) == Strip(l)

\* a comparison that forgets to lower-case
IsExitCommandCaseSensitive(ui) == ui \in ExitPhrases

\* line 218: user_input.lower() in ['sair', 'quit', 'exit', 'q']
IsExitCommand(ui) == Lower(ui) \in ExitPhrases

\* line 222: not user_input
IsBlank(ui) == ui = <<>>

\* a dispatch that makes up a session identifier of its own
RunAsyncArgsFreshSession(query) ==
    [user_id |-> USER_ID_OPENAPI,
     session_id |-> CHOOSE s \in SessionIds : s # SESSION_ID_OPENAPI,
     new_message |-> query]

\* lines 184-188: the arguments of runner_openapi.run_async
RunAsyncArgs(query) ==
    [user_id |-> USER_ID_OPENAPI, session_id |-> SESSION_ID_OPENAPI,
     new_message |-> query]

\* input() returns a line: lines 216-226, and for a line that is neither an exit
\* phrase nor blank the start of call_agent (180-188) up to its first await
ReadInput ==
    /\ pc = "awaiting"
    /\ \E l \in Lines :
         LET ui == ReadLine(l) IN
         /\ line' = l
         /\ user_input' = ui
         /\ IF IsExitCommand(ui)
            THEN /\ stdout' = Msg("farewell", <<>>)
                 /\ pc' = "returned"
                 /\ exitCause' = "phrase"
                 /\ UNCHANGED << final_response_text, runArgs, events, notices,
                                 outcome, dispatches >>
            ELSE IF IsBlank(ui)
            THEN /\ stdout' = Msg("warning", <<>>)
                 /\ pc' = "awaiting"
                 /\ UNCHANGED << final_response_text, runArgs, events, notices,
                                 outcome, dispatches, exitCause >>
            ELSE /\ dispatches < MaxTurns
                 /\ stdout' = Msg("processing", <<>>)
                 /\ final_response_text' = FALLBACK
                 /\ runArgs' = RunAsyncArgs(ui)
                 /\ dispatches' = dispatches + 1
                 /\ events' = <<>>
                 /\ notices' = <<>>
                 /\ outcome' = NoOutcome
                 /\ pc' = "dispatching"
                 /\ UNCHANGED exitCause
    /\ UNCHANGED << SESSION_ID_OPENAPI, created, bootstrap, responses, handled,
                    interruptAt >>

\* an input error that escapes the iteration to the handler at line 236
InputFailsLeavesLoop ==
    /\ pc = "awaiting"
    /\ line' = NoLine
    /\ stdout' = Msg("init_error", <<>>)
    /\ handled' = Append(handled, "init_error")
    /\ pc' = "returned"
    /\ UNCHANGED << SESSION_ID_OPENAPI, created, bootstrap, user_input,
                    final_response_text, runArgs, events, notices, outcome,
                    dispatches, responses, exitCause, interruptAt >>

\* input() raises an Exception (EOFError at end of input): caught at line 233,
\* reported at 234, the loop goes on
InputFails ==
    /\ pc = "awaiting"
    /\ line' = NoLine
    /\ stdout' = Msg("iter_error", EOF_ERROR)
    /\ pc' = "awaiting"
    /\ UNCHANGED << SESSION_ID_OPENAPI, created, bootstrap, user_input,
                    final_response_text, runArgs, events, notices, outcome,
                    dispatches, responses, handled, exitCause, interruptAt >>

\* KeyboardInterrupt inside input(): caught at line 230, farewell at 231, break
InputInterrupted ==
    /\ pc = "awaiting"
    /\ line' = NoLine
    /\ interruptAt' = "input"
    /\ stdout' = Msg("interrupted", <<>>)
    /\ handled' = Append(handled, "loop_interrupt")
    /\ exitCause' = "interrupt"
    /\ pc' = "returned"
    /\ UNCHANGED << SESSION_ID_OPENAPI, created, bootstrap, user_input,
                    final_response_text, runArgs, events, notices, outcome,
                    dispatches, responses >>

\* -------------------------------------------------- one turn (179-197, 227-228)
\* line 197: f"Erro: {str(e)}"
ErrorString(e) == ERRO_PREFIX \o e

\* line 192's test that the event has first-part content to read
HasParts(ev) == ev.parts \in {"notext", "text"}

\* line 193 raises AttributeError: the first part of a final event has no text
BodyRaises(ev) == ev.calls = <<>> /\ ev.final /\ HasParts(ev) /\ ev.parts = "notext"

\* a body that takes the text of any event with content, final or not
HandleEventIgnoresFinal(ev, cur) ==
    IF ev.calls # <<>> THEN cur
    ELSE IF HasParts(ev) THEN Strip(ev.text)
    ELSE cur

\* a body that keeps the first final text it saw
HandleEventFirstWins(ev, cur) ==
    IF ev.calls # <<>> THEN cur
    ELSE IF ev.final /\ HasParts(ev) /\ cur = FALLBACK THEN Strip(ev.text)
    ELSE cur

\* lines 189-193: final_response_text after the loop body ran on ev without raising
HandleEvent(ev, cur) ==
    IF ev.calls # <<>> THEN cur
    ELSE IF ev.final /\ HasParts(ev) THEN Strip(ev.text)
    ELSE cur

\* lines 189-191: what the body prints for ev
Notice(ev) == IF ev.calls # <<>> THEN << ev.calls[1] >> ELSE <<>>

TurnVarsUnchanged ==
    UNCHANGED << SESSION_ID_OPENAPI, created, bootstrap, line, user_input, runArgs,
                 dispatches, handled, exitCause, interruptAt >>

\* a return that shows nothing: no response line is printed
FinishTurnSilent(r) ==
    /\ stdout' = Msg("processing", <<>>)
    /\ responses' = responses
    /\ pc' = "awaiting"

\* call_agent returns r (195 or 197); line 228 prints it; the loop starts over
FinishTurn(r) ==
    /\ stdout' = Msg("response", r)
    /\ responses' = responses + 1
    /\ pc' = "awaiting"

\* the runner yields one more event: one pass of the body, lines 189-193; an
\* AttributeError at line 193 is caught at 196 and ends the turn
ConsumeEvent ==
    /\ pc = "dispatching"
    /\ Len(events) < MaxEvents
    /\ \E ev \in Events :
          /\ events' = Append(events, ev)
          /\ notices' = notices \o Notice(ev)
          /\ IF BodyRaises(ev)
             THEN /\ FinishTurn(ErrorString(ATTRIBUTE_ERROR))
                  /\ outcome' = [end |-> "body_error", exc |-> ATTRIBUTE_ERROR]
                  /\ UNCHANGED final_response_text
             ELSE /\ final_response_text' = HandleEvent(ev, final_response_text)
                  /\ stdout' = IF Notice(ev) # <<>> THEN Msg("notice", Notice(ev))
                               ELSE stdout
                  /\ UNCHANGED << outcome, responses, pc >>
    /\ TurnVarsUnchanged

\* the event sequence ends: line 195 returns final_response_text
RunnerEnds ==
    /\ pc = "dispatching"
    /\ FinishTurn(final_response_text)
    /\ outcome' = [end |-> "completed", exc |-> <<>>]
    /\ UNCHANGED << final_response_text, events, notices >>
    /\ TurnVarsUnchanged

\* an except branch that returns the text gathered so far
RunnerRaisesKeepsText ==
    /\ pc = "dispatching"
    /\ \E e \in ExcTexts :
          /\ FinishTurn(final_response_text)
          /\ outcome' = [end |-> "raised", exc |-> e]
    /\ UNCHANGED << final_response_text, events, notices >>
    /\ TurnVarsUnchanged

\* the event sequence raises an Exception: caught at 196, line 197 returns the
\* error string
RunnerRaises ==
    /\ pc = "dispatching"
    /\ \E e \in ExcTexts :
          /\ FinishTurn(ErrorString(e))
          /\ outcome' = [end |-> "raised", exc |-> e]
    /\ UNCHANGED << final_response_text, events, notices >>
    /\ TurnVarsUnchanged

\* an interrupt that call_agent's handler takes for a turn error
InterruptCaughtByCallAgent ==
    /\ pc = "dispatching"
    /\ interruptAt' = "dispatch"
    /\ FinishTurn(ErrorString(<<>>))
    /\ outcome' = [end |-> "raised", exc |-> <<>>]
    /\ UNCHANGED << SESSION_ID_OPENAPI, created, bootstrap, line, user_input,
                    final_response_text, runArgs, events, notices, dispatches,
                    handled, exitCause >>

\* an interrupt while the turn is in flight, raised as KeyboardInterrupt in the
\* code of the coroutine: `except Exception` at 196 lets it pass, the await at
\* line 227 raises it inside the try of line 215, line 230 catches it
InterruptInTask ==
    /\ pc = "dispatching"
    /\ interruptAt' = "dispatch"
    /\ stdout' = Msg("interrupted", <<>>)
    /\ handled' = Append(handled, "loop_interrupt")
    /\ exitCause' = "interrupt"
    /\ pc' = "returned"
    /\ UNCHANGED << SESSION_ID_OPENAPI, created, bootstrap, line, user_input,
                    final_response_text, runArgs, events, notices, outcome,
                    dispatches, responses >>

\* an interrupt while the turn is in flight that stops the event loop itself
\* (the coroutine is suspended, or its task is cancelled): nothing in
\* interactive_terminal catches it, asyncio.run raises KeyboardInterrupt,
\* lines 243-244 report it
InterruptAtBoundary ==
    /\ pc = "dispatching"
    /\ interruptAt' = "dispatch"
    /\ stdout' = Msg("program_end", <<>>)
    /\ handled' = Append(handled, "outer_interrupt")
    /\ exitCause' = "interrupt"
    /\ pc' = "terminated"
    /\ UNCHANGED << SESSION_ID_OPENAPI, created, bootstrap, line, user_input,
                    final_response_text, runArgs, events, notices, outcome,
                    dispatches, responses >>

\* ------------------------------------------------------------ specification
Next ==
    \/ SetupOk
    \/ SetupFails
    \/ SetupInterrupted
    \/ ReadInput
    \/ InputFails
    \/ InputInterrupted
    \/ ConsumeEvent
    \/ RunnerEnds
    \/ RunnerRaises
    \/ InterruptInTask
    \/ InterruptAtBoundary

Spec == Init /\ [][Next]_vars

TypeOK ==
    /\ pc \in {"boot", "awaiting", "dispatching", "returned", "terminated"}
    /\ SESSION_ID_OPENAPI \in SessionIds
    /\ Len(created) <= 1
    /\ bootstrap \in {"pending", "ok", "failed", "interrupted"}
    /\ line \in Lines \cup {NoLine}
    /\ Len(events) <= MaxEvents
    /\ dispatches \in 0..MaxTurns
    /\ responses \in 0..MaxTurns
    /\ exitCause \in {"none", "phrase", "interrupt"}
    /\ interruptAt \in {"none", "boot", "input", "dispatch"}

\* ------------------------------------------------------------------ claims
Range(f) == { f[i] : i \in DOMAIN f }

LoopEntered == bootstrap = "ok"

\* the state right after call_agent returned and line 228 printed its value
TurnShown(how) == outcome.end = how /\ stdout.kind = "response"

\* C1: a line that, trimmed and lower-cased, is one of 'sair', 'quit', 'exit', 'q'
\* makes the loop print the farewell and end, with no run_async call for that
\* line and no handler involved, whatever turns came before.
C1_ExitPhraseExits ==
    (line # NoLine /\ Lower(Strip(line)) \in ExitPhrases) =>
        /\ pc = "returned"
        /\ stdout = Msg("farewell", <<>>)
        /\ exitCause = "phrase"
        /\ responses = dispatches
        /\ runArgs.new_message # Strip(line)
        /\ handled = <<>>

\* C1 happens: a padded, upper-case exit phrase read after a turn that ended in
\* an error
C1_Witness ==
    /\ line = <<" ","S","A","I","R"," ">>
    /\ pc = "returned"
    /\ dispatches > 0
    /\ outcome.end = "raised"

\* C2: an empty or whitespace-only line makes the loop print the warning, make
\* no run_async call, show no response and wait for input again.
C2_BlankLineReprompts ==
    (line # NoLine /\ Strip(line) = <<>>) =>
        /\ pc = "awaiting"
        /\ stdout = Msg("warning", <<>>)
        /\ exitCause = "none"
        /\ responses = dispatches
        /\ runArgs.new_message \notin {line, <<>>}

\* C2 happens: a non-empty line of whitespace read after an earlier turn
C2_Witness ==
    /\ line # <<>> /\ line # NoLine /\ Strip(line) = <<>>
    /\ stdout.kind = "warning"
    /\ dispatches > 0

\* C3: when the event sequence raises, what is shown for the turn is 'Erro: '
\* followed by the exception's text (so no final text seen earlier), and the
\* loop is waiting for input again, not ended.
C3_RaisedTurnShowsError ==
    TurnShown("raised") =>
        /\ stdout.text = <<"Erro: ">> \o outcome.exc
        /\ pc = "awaiting"
        /\ exitCause = "none"
        /\ responses = dispatches

\* C3 happens: the sequence raised after a final event with text was consumed
C3_Witness ==
    /\ TurnShown("raised")
    /\ outcome.exc # <<>>
    /\ \E i \in 1..Len(events) : events[i].final /\ events[i].parts = "text"

\* C4: when the event sequence ends without raising and no event of it is marked
\* final, what is shown is the fallback sentence, and never the empty string.
C4_NoFinalGivesFallback ==
    (TurnShown("completed") /\ \A i \in 1..Len(events) : ~events[i].final) =>
        /\ stdout.text = <<"Agent não forneceu uma resposta final.">>
        /\ stdout.text # <<>>

\* C4 happens: a completed turn whose events carried text and tool calls, none final
C4_Witness ==
    /\ TurnShown("completed")
    /\ \A i \in 1..Len(events) : ~events[i].final
    /\ \E i \in 1..Len(events) : events[i].parts = "text"
    /\ \E i \in 1..Len(events) : events[i].calls # <<>>

\* the events of evs that are final, carry text and carry no tool invocation
FinalTexts(evs) ==
    { i \in 1..Len(evs) :
        evs[i].calls = <<>> /\ evs[i].final /\ evs[i].parts = "text" }

Last(S) == CHOOSE i \in S : \A j \in S : j <= i

\* the first invocation's name of every event of evs that carries invocations
FirstCallNames(evs) ==
    LET withCalls == SelectSeq(evs, LAMBDA e : e.calls # <<>>)
    IN  [i \in 1..Len(withCalls) |-> withCalls[i].calls[1]]

\* C5 as stated: in a turn that completes, the text of an event marked final
\* that carries text is what is shown, and the progress notices are the first
\* invocation of each event that carries tool invocations.
C5_Original ==
    TurnShown("completed") =>
        /\ \A i \in FinalTexts(events) : stdout.text = events[i].text
        /\ notices = FirstCallNames(events)

\* C5 amended: in a turn that completes, if some event is marked final and
\* carries text, what is shown is the text of the LAST such event with its
\* surrounding whitespace removed; the progress notices are the first invocation
\* of each event that carries tool invocations, which change nothing else.
C5_LastFinalTextStripped ==
    TurnShown("completed") =>
        /\ FinalTexts(events) # {} =>
               stdout.text = Strip(events[Last(FinalTexts(events))].text)
        /\ notices = FirstCallNames(events)

\* C5 happens: a tool-call event, then a final event whose text has whitespace
\* around it
C5_Witness ==
    /\ TurnShown("completed")
    /\ \E i, j \in 1..Len(events) :
          /\ i < j
          /\ events[i].calls # <<>>
          /\ j \in FinalTexts(events)
          /\ Strip(events[j].text) # events[j].text
    /\ notices # <<>>

\* C6: at most one session is ever created, exactly one once the loop runs, and
\* every run_async call carries the user and session identifiers the session
\* was created with, which are the ones fixed at start.
C6_OneSessionSameIds ==
    /\ Len(created) <= 1
    /\ LoopEntered => Len(created) = 1
    /\ \A i \in 1..Len(created) :
          /\ created[i].session_id = SESSION_ID_OPENAPI
          /\ created[i].user_id = USER_ID_OPENAPI
    /\ dispatches > 0 =>
          /\ Len(created) = 1
          /\ runArgs.user_id = created[1].user_id
          /\ runArgs.session_id = created[1].session_id

\* C6 happens: a second dispatch, made after an earlier turn was answered
C6_Witness ==
    /\ pc = "dispatching"
    /\ dispatches >= 2
    /\ responses >= 1
    /\ runArgs.session_id = created[1].session_id

\* C7: at most one dispatch is outstanding; while one is, exactly the earlier
\* ones have had their response shown; whenever input is awaited every dispatch
\* made has had exactly one response shown.
C7_TurnsSerialized ==
    /\ responses <= dispatches
    /\ dispatches <= responses + 1
    /\ pc = "dispatching" => dispatches = responses + 1
    /\ pc = "awaiting" => dispatches = responses
    /\ stdout.kind = "response" =>
          /\ pc = "awaiting"
          /\ outcome.end \in {"completed", "raised", "body_error"}

\* C7 happens: a second dispatch is outstanding and the first was answered
C7_Witness ==
    /\ pc = "dispatching"
    /\ dispatches = 2
    /\ responses = 1

\* C8: when the bootstrap fails or is interrupted, exactly one handler runs and
\* reports it, the run is over, no line was ever read and no dispatch made.
C8_BootstrapFailureSkipsLoop ==
    (bootstrap \in {"failed", "interrupted"}) =>
        /\ Len(handled) = 1
        /\ bootstrap = "failed" =>
              handled[1] = "init_error" /\ stdout.kind = "init_error" /\ pc = "returned"
        /\ bootstrap = "interrupted" =>
              handled[1] = "outer_interrupt" /\ stdout.kind = "program_end"
              /\ pc = "terminated"
        /\ line = NoLine
        /\ user_input = NoLine
        /\ dispatches = 0
        /\ runArgs = NoArgs

\* C8 happens: the bootstrap raised before the session existed
C8_Witness ==
    /\ bootstrap = "failed"
    /\ created = <<>>
    /\ stdout.kind = "init_error"

\* C9 as stated: an interrupt that arrives during a dispatch never runs the
\* loop's own interrupt handler; only the handler around asyncio.run sees it.
C9_Original ==
    interruptAt = "dispatch" =>
        /\ "loop_interrupt" \notin Range(handled)
        /\ handled = << "outer_interrupt" >>

\* C9 amended: an interrupt that arrives during a dispatch is never turned into
\* a response of the turn and ends the run without another read; it is reported
\* once, by the loop's interrupt handler when it is raised inside the coroutine
\* and by the handler around asyncio.run otherwise.
C9_InterruptEndsRunUnanswered ==
    interruptAt = "dispatch" =>
        /\ dispatches = responses + 1
        /\ outcome.end = "none"
        /\ stdout.kind # "response"
        /\ exitCause = "interrupt"
        /\ \/ handled = << "loop_interrupt" >> /\ stdout.kind = "interrupted"
                /\ pc = "returned"
           \/ handled = << "outer_interrupt" >> /\ stdout.kind = "program_end"
                /\ pc = "terminated"

\* C9 happens: the interrupt came after an event was consumed and the loop's
\* handler took it
C9_Witness ==
    /\ interruptAt = "dispatch"
    /\ events # <<>>
    /\ handled = << "loop_interrupt" >>

\* C10: once the loop runs it ends only on an exit phrase or an interrupt; an
\* input read that raises is reported and leaves the loop waiting for input, and
\* the initialization-error message is never printed.
C10_LoopLeftOnlyByExitOrInterrupt ==
    /\ (LoopEntered /\ pc \in {"returned", "terminated"}) =>
          /\ exitCause \in {"phrase", "interrupt"}
          /\ exitCause = "phrase" => Lower(Strip(line)) \in ExitPhrases
          /\ exitCause = "interrupt" => interruptAt \in {"input", "dispatch"}
    /\ LoopEntered =>
          /\ stdout.kind # "init_error"
          /\ "init_error" \notin Range(handled)
    /\ stdout.kind = "iter_error" =>
          /\ pc = "awaiting"
          /\ exitCause = "none"
          /\ handled = <<>>

\* C10 happens: input() raised after an earlier turn, and the loop awaits input
C10_Witness ==
    /\ stdout = Msg("iter_error", EOF_ERROR)
    /\ pc = "awaiting"
    /\ dispatches > 0

====
